---- MODULE Spec2Model ----
(***************************************************************************)
(* Model of nodes/modifier_change/objects_along_edge.py: the node          *)
(* SvDuplicateAlongEdgeNode ("Duplicate along edge").                      *)
(*                                                                         *)
(* Numbers are exact rationals <<n, d>> (d > 0, lowest terms); a Vector is *)
(* a triple of rationals, a Matrix a 4x4 tuple of rows.  Lengths are exact *)
(* square roots: every vector whose length is taken as a number is drawn   *)
(* from sets whose lengths are rational.  A normalized vector is kept as   *)
(* the pair (vec, len2) standing for vec / sqrt(len2), so that products of *)
(* its components (which is all householder uses) stay rational.           *)
(***************************************************************************)
EXTENDS Integers, Sequences, FiniteSets, TLC

(***************************************************************************)
(* Bounds of the model.                                                    *)
(***************************************************************************)
MaxItems == 3
MaxCount == 3

(***************************************************************************)
(* Exact rational arithmetic (Python floats without rounding).             *)
(***************************************************************************)
Abs(a) == IF a < 0 THEN -a ELSE a

RECURSIVE GCD(_, _)
GCD(a, b) == IF b = 0 THEN a ELSE GCD(b, a % b)

Rat(n, d) ==
    LET g == GCD(Abs(n), Abs(d))
        s == IF d < 0 THEN -1 ELSE 1
    IN  <<(s * n) \div g, (s * d) \div g>>

R(n) == <<n, 1>>
RZero == <<0, 1>>
ROne == <<1, 1>>
RHalf == <<1, 2>>

\* integers are added and multiplied directly, which needs no reduction
RAdd(p, q) ==
    IF p[2] = 1 /\ q[2] = 1 THEN <<p[1] + q[1], 1>>
    ELSE Rat(p[1] * q[2] + q[1] * p[2], p[2] * q[2])
RNeg(p) == <<-p[1], p[2]>>
RSub(p, q) == RAdd(p, RNeg(q))
RMul(p, q) ==
    IF p[1] = 0 \/ q[1] = 0 THEN <<0, 1>>
    ELSE IF p[2] = 1 /\ q[2] = 1 THEN <<p[1] * q[1], 1>>
    ELSE Rat(p[1] * q[1], p[2] * q[2])
RIsZero(p) == p[1] = 0
\* p / q for q # 0 (callers raise ZeroDivisionError themselves when q = 0)
RDiv(p, q) == Rat(p[1] * q[2], p[2] * q[1])
RLess(p, q) == p[1] * q[2] < q[1] * p[2]
RLeq(p, q) == p[1] * q[2] <= q[1] * p[2]
RMax(p, q) == IF RLess(p, q) THEN q ELSE p
RMin(p, q) == IF RLess(q, p) THEN q ELSE p

\* math.floor and math.ceil of a number
floor(p) == p[1] \div p[2]
ceil(p) == -((-p[1]) \div p[2])

\* exact integer square root of a perfect square
ISqrt(n) == CHOOSE r \in 0..n : r * r <= n /\ (r + 1) * (r + 1) > n
IsSquare(n) == n >= 0 /\ ISqrt(n) * ISqrt(n) = n
RSqrt(p) == <<ISqrt(p[1]), ISqrt(p[2])>>
RIsSquare(p) == IsSquare(p[1]) /\ IsSquare(p[2])

(***************************************************************************)
(* mathutils.Vector                                                        *)
(***************************************************************************)
Vector(x, y, z) == <<R(x), R(y), R(z)>>
VAdd(a, b) == <<RAdd(a[1], b[1]), RAdd(a[2], b[2]), RAdd(a[3], b[3])>>
VSub(a, b) == <<RSub(a[1], b[1]), RSub(a[2], b[2]), RSub(a[3], b[3])>>
VScale(a, s) == <<RMul(a[1], s), RMul(a[2], s), RMul(a[3], s)>>
VDot(a, b) == RAdd(RAdd(RMul(a[1], b[1]), RMul(a[2], b[2])), RMul(a[3], b[3]))
VLen2(a) == VDot(a, a)
\* Vector.length
VLength(a) == RSqrt(VLen2(a))
VZero == Vector(0, 0, 0)
\* Vector.normalized(): a zero vector stays a zero vector
normalized_unit(a) ==
    IF RIsZero(VLen2(a)) THEN [vec |-> Vector(1, 0, 0), len2 |-> ROne]
    ELSE [vec |-> a, len2 |-> VLen2(a)]
normalized(a) ==
    IF RIsZero(VLen2(a)) THEN [vec |-> VZero, len2 |-> ROne]
    ELSE [vec |-> a, len2 |-> VLen2(a)]
\* scalar * unit vector, for a unit vector of rational length
UnitScale(s, u) == VScale(u.vec, RDiv(s, RSqrt(u.len2)))

(***************************************************************************)
(* mathutils.Matrix (4x4): a tuple of four rows of four numbers            *)
(***************************************************************************)
\* a list comprehension, every element computed once
List(f) == SubSeq(f, 1, Len(f))
Row(f) == <<f[1], f[2], f[3], f[4]>>
Mat(M) == <<Row(M[1]), Row(M[2]), Row(M[3]), Row(M[4])>>

Kronecker(r, c) == IF r = c THEN ROne ELSE RZero
\* Matrix()
Identity == Mat([r \in 1..4 |-> [c \in 1..4 |-> Kronecker(r, c)]])

MMul(A, B) ==
    Mat([r \in 1..4 |-> [c \in 1..4 |->
           RAdd(RAdd(RMul(A[r][1], B[1][c]), RMul(A[r][2], B[2][c])),
                RAdd(RMul(A[r][3], B[3][c]), RMul(A[r][4], B[4][c])))]])
MSub(A, B) == Mat([r \in 1..4 |-> [c \in 1..4 |-> RSub(A[r][c], B[r][c])]])
MScalar(s, A) == Mat([r \in 1..4 |-> [c \in 1..4 |-> RMul(s, A[r][c])]])

\* the linear 3x3 block applied to a direction
MLinear(A, v) ==
    <<VDot(<<A[1][1], A[1][2], A[1][3]>>, v),
      VDot(<<A[2][1], A[2][2], A[2][3]>>, v),
      VDot(<<A[3][1], A[3][2], A[3][3]>>, v)>>
\* Matrix * Vector: the 3D vector is extended with w = 1, the result is 3D
MApply(A, v) == VAdd(MLinear(A, v), <<A[1][4], A[2][4], A[3][4]>>)

\* Matrix.Translation(o)
Translation(o) ==
    <<<<ROne, RZero, RZero, o[1]>>,
      <<RZero, ROne, RZero, o[2]>>,
      <<RZero, RZero, ROne, o[3]>>,
      <<RZero, RZero, RZero, ROne>>>>
\* Matrix.Scale(factor, 4)
ScaleUniform(f) ==
    <<<<f, RZero, RZero, RZero>>,
      <<RZero, f, RZero, RZero>>,
      <<RZero, RZero, f, RZero>>,
      <<RZero, RZero, RZero, ROne>>>>
\* Matrix.Scale(factor, 4, axis), axis a unit vector
ScaleAxis_uniform(f, a) == ScaleUniform(f)
ScaleAxis(f, a) ==
    Mat([r \in 1..4 |-> [c \in 1..4 |->
           IF r = 4 \/ c = 4 THEN Kronecker(r, c)
           ELSE RAdd(Kronecker(r, c), RMul(RSub(f, ROne), RMul(a[r], a[c])))]])

\* determinants: 3x3 by Sarrus' rule, 4x4 by cofactors of the first row
Det3(m) ==
    RSub(RAdd(RAdd(RMul(m[1][1], RMul(m[2][2], m[3][3])),
                   RMul(m[1][2], RMul(m[2][3], m[3][1]))),
              RMul(m[1][3], RMul(m[2][1], m[3][2]))),
         RAdd(RAdd(RMul(m[1][3], RMul(m[2][2], m[3][1])),
                   RMul(m[1][2], RMul(m[2][1], m[3][3]))),
              RMul(m[1][1], RMul(m[2][3], m[3][2]))))
Others(k) ==
    CASE k = 1 -> <<2, 3, 4>>
      [] k = 2 -> <<1, 3, 4>>
      [] k = 3 -> <<1, 2, 4>>
      [] k = 4 -> <<1, 2, 3>>
Minor3(A, rs, cs) ==
    <<<<A[rs[1]][cs[1]], A[rs[1]][cs[2]], A[rs[1]][cs[3]]>>,
      <<A[rs[2]][cs[1]], A[rs[2]][cs[2]], A[rs[2]][cs[3]]>>,
      <<A[rs[3]][cs[1]], A[rs[3]][cs[2]], A[rs[3]][cs[3]]>>>>
Sign(k) == IF k % 2 = 0 THEN ROne ELSE R(-1)
Cofactor(A, r, c) == RMul(Sign(r + c), Det3(Minor3(A, Others(r), Others(c))))
RECURSIVE DetFrom(_, _)
DetFrom(A, c) ==
    IF c > 4 THEN RZero
    ELSE RAdd(RMul(A[1][c], Cofactor(A, 1, c)), DetFrom(A, c + 1))
Det(A) == DetFrom(A, 1)

\* Matrix.inverted(): adjugate over determinant (ValueError when singular)
Invertible(A) == ~RIsZero(Det(A))
Adjugate(A, d) == Mat([r \in 1..4 |-> [c \in 1..4 |-> RDiv(Cofactor(A, c, r), d)]])
inverted(A) == Adjugate(A, Det(A))

(***************************************************************************)
(* Module-level helpers of objects_along_edge.py                           *)
(***************************************************************************)
\* Python's None
None == <<>>
Ok(v) == [err |-> "none", val |-> v]
Err(e) == [err |-> e]

\* householder(u): u is a normalized vector; x*y of its components is
\* vec[r] * vec[c] / len2
householder(u) ==
    LET m == Mat([r \in 1..4 |-> [c \in 1..4 |->
                    IF r = 4 \/ c = 4 THEN RZero
                    ELSE RDiv(RMul(u.vec[r], u.vec[c]), u.len2)]])
    IN  MSub(Identity, MScalar(R(2), m))

autorotate_plus(e1, xx) ==
    LET alpha == VLength(xx)
        u == VAdd(xx, VScale(e1, alpha))
        v == normalized(u)
        q == householder(v)
    IN  q
autorotate(e1, xx) ==
    LET alpha == VLength(xx)
        u == VSub(xx, VScale(e1, alpha))
        v == normalized(u)
        q == householder(v)
    IN  q

RECURSIVE MaxOf(_, _)
MaxOf(xs, n) == IF n = 1 THEN xs[1] ELSE RMax(MaxOf(xs, n - 1), xs[n])
RECURSIVE MinOf(_, _)
MinOf(xs, n) == IF n = 1 THEN xs[1] ELSE RMin(MinOf(xs, n - 1), xs[n])

\* diameter(vertices, axis), axis 0-based; max() of an empty list raises
diameter_or_one(vertices, axis) ==
    LET xs == List([k \in 1..Len(vertices) |-> vertices[k][axis + 1]])
    IN  IF Len(vertices) = 0 THEN Err("ValueError")
        ELSE IF MaxOf(xs, Len(xs)) = MinOf(xs, Len(xs)) THEN Ok(ROne)
        ELSE Ok(RSub(MaxOf(xs, Len(xs)), MinOf(xs, Len(xs))))
diameter(vertices, axis) ==
    LET xs == List([k \in 1..Len(vertices) |-> vertices[k][axis + 1]])
    IN  IF Len(vertices) = 0 THEN Err("ValueError")
        ELSE Ok(RSub(MaxOf(xs, Len(xs)), MinOf(xs, Len(xs))))

all_axes == <<Vector(1, 0, 0), Vector(0, 1, 0), Vector(0, 0, 1)>>

Matrix_degenerate(ms) ==
    List([k \in 1..Len(ms) |-> Mat(ms[k])])

(***************************************************************************)
(* SvDuplicateAlongEdgeNode: properties and methods.  self is the record   *)
(* of the node's properties.                                               *)
(***************************************************************************)
count_modes == {"count", "up", "down", "off"}
axes == {"X", "Y", "Z"}
input_modes == {"edge", "fixed"}

get_axis_idx(self) ==
    CASE self.orient_axis_ = "X" -> 0
      [] self.orient_axis_ = "Y" -> 1
      [] self.orient_axis_ = "Z" -> 2

orient_axis(self) == get_axis_idx(self)

count_const(self, v1, v2, vertices, count) == Ok(count)

\* float / float raises ZeroDivisionError on a zero divisor
count_up_ceil(self, v1, v2, vertices, count) ==
    LET distance == VLength(VSub(v1, v2))
        donor_size == diameter(vertices, orient_axis(self))
    IN  IF donor_size.err # "none" THEN donor_size
        ELSE IF RIsZero(donor_size.val) THEN Err("ZeroDivisionError")
        ELSE Ok(ceil(RDiv(distance, donor_size.val)))
count_up(self, v1, v2, vertices, count) ==
    LET distance == VLength(VSub(v1, v2))
        donor_size == diameter(vertices, orient_axis(self))
    IN  IF donor_size.err # "none" THEN donor_size
        ELSE IF RIsZero(donor_size.val) THEN Err("ZeroDivisionError")
        ELSE Ok(floor(RDiv(distance, donor_size.val)))

count_down_floor(self, v1, v2, vertices, count) ==
    LET distance == VLength(VSub(v1, v2))
        donor_size == diameter(vertices, orient_axis(self))
    IN  IF donor_size.err # "none" THEN donor_size
        ELSE IF RIsZero(donor_size.val) THEN Err("ZeroDivisionError")
        ELSE Ok(floor(RDiv(distance, donor_size.val)))
count_down(self, v1, v2, vertices, count) ==
    LET distance == VLength(VSub(v1, v2))
        donor_size == diameter(vertices, orient_axis(self))
    IN  IF donor_size.err # "none" THEN donor_size
        ELSE IF RIsZero(donor_size.val) THEN Err("ZeroDivisionError")
        ELSE Ok(ceil(RDiv(distance, donor_size.val)))

\* count_funcs[mode](self, v1, v2, vertices, count)
count_funcs_swapped(mode, self, v1, v2, vertices, count) ==
    CASE mode = "count" -> count_const(self, v1, v2, vertices, count)
      [] mode = "up" -> count_down(self, v1, v2, vertices, count)
      [] mode = "down" -> count_up(self, v1, v2, vertices, count)
      [] mode = "off" -> count_up(self, v1, v2, vertices, count)
count_funcs(mode, self, v1, v2, vertices, count) ==
    CASE mode = "count" -> count_const(self, v1, v2, vertices, count)
      [] mode = "up" -> count_up(self, v1, v2, vertices, count)
      [] mode = "down" -> count_down(self, v1, v2, vertices, count)
      [] mode = "off" -> count_up(self, v1, v2, vertices, count)

get_count(self, v1, v2, vertices, count) ==
    count_funcs(self.count_mode, self, v1, v2, vertices, count)

get_scale_off(self) == self.count_mode = "off"
scale_off(self) == get_scale_off(self)

\* vertices[i] with a 0-based Python index that is in range
InRange(vertices, k) == k >= -Len(vertices) /\ k < Len(vertices)
PyIndex(vertices, k) ==
    IF k >= 0 THEN vertices[k + 1] ELSE vertices[Len(vertices) + k + 1]

get_recipient_vertices(self, vs1, vs2, vertices, edges) ==
    IF self.input_mode = "fixed" THEN Ok(<<vs1, vs2>>)
    ELSE IF \E k \in 1..Len(edges) :
                ~InRange(vertices, edges[k][1]) \/ ~InRange(vertices, edges[k][2])
         THEN Err("IndexError")
    ELSE Ok(<<List([k \in 1..Len(edges) |-> PyIndex(vertices, edges[k][1])]),
              List([k \in 1..Len(edges) |-> PyIndex(vertices, edges[k][2])])>>)

\* [x] * count and list.extend
replicate_short(x, count) == List([k \in 1..(count - 1) |-> x])
replicate(x, count) == List([k \in 1..count |-> x])
extend_front(lst, new) == new \o lst
extend(lst, new) == lst \o new

\* numpy.linspace(start, stop, num) for num >= 2
linspace_open(start, stop, num) ==
    List([k \in 1..num |->
            RAdd(start, RDiv(RMul(R(k - 1), RSub(stop, start)), R(num)))])
linspace(start, stop, num) ==
    List([k \in 1..num |->
            RAdd(start, RDiv(RMul(R(k - 1), RSub(stop, start)), R(num - 1)))])

flip_y ==
    <<<<ROne, RZero, RZero, RZero>>,
      <<RZero, R(-1), RZero, RZero>>,
      <<RZero, RZero, ROne, RZero>>,
      <<RZero, RZero, RZero, ROne>>>>
flip ==
    <<<<R(-1), RZero, RZero, RZero>>,
      <<RZero, ROne, RZero, RZero>>,
      <<RZero, RZero, ROne, RZero>>,
      <<RZero, RZero, RZero, ROne>>>>

\* the origins of line 172: the list comprehension over linspace, last dropped
origins_of(v1, direction, one_item_length, u, count) ==
    LET xs == linspace(RZero, ROne, count + 1)
        all == List([k \in 1..Len(xs) |->
                        VAdd(VAdd(v1, VScale(direction, xs[k])),
                             UnitScale(RMul(RHalf, one_item_length), u))])
    IN  SubSeq(all, 1, Len(all) - 1)

\* lines 186-189: the matrix of the instance at origin o
instance_matrix(o, rot, scale) ==
    IF scale = None THEN MMul(MMul(Translation(o), rot), flip)
    ELSE MMul(MMul(MMul(Translation(o), rot), scale), flip)

\* lines 191-195: the vertex sets, and what duplicate_vertices returns.  The
\* result carries the locals next to the returned pair (matrices,
\* result_vertices).
dv_result_unapplied(self, vertices, count, direction, edge_length, x_scale, origins, scale, rot, matrices) ==
    [err |-> "none", matrices |-> matrices,
     result_vertices |-> replicate(vertices, count),
     count |-> count, direction |-> direction,
     edge_length |-> edge_length, x_scale |-> x_scale,
     origins |-> origins, scale |-> scale, rot |-> rot]
dv_result(self, vertices, count, direction, edge_length, x_scale, origins, scale, rot, matrices) ==
    [err |-> "none", matrices |-> matrices,
     result_vertices |->
        IF self.apply_matrices
        THEN List([k \in 1..Len(matrices) |->
                     List([j \in 1..Len(vertices) |->
                              MApply(matrices[k], vertices[j])])])
        ELSE replicate(vertices, count),
     count |-> count, direction |-> direction,
     edge_length |-> edge_length, x_scale |-> x_scale,
     origins |-> origins, scale |-> scale, rot |-> rot]

\* lines 184-189
dv_matrices(self, vertices, count, direction, edge_length, x_scale, origins, scale, rot) ==
    dv_result(self, vertices, count, direction, edge_length, x_scale, origins,
              scale, rot,
              List([k \in 1..Len(origins) |->
                       instance_matrix(origins[k], rot, scale)]))

\* line 173: assert len(origins) == count, and
\* line 182: rot = autorotate(x, direction).inverted()
dv_rot(self, vertices, count, direction, edge_length, x_scale, origins, scale, q) ==
    IF Len(origins) # count THEN Err("AssertionError")
    ELSE IF ~Invertible(q) THEN Err("ValueError")
    ELSE dv_matrices(self, vertices, count, direction, edge_length, x_scale,
                     origins, scale, inverted(q))

\* duplicate_vertices(self, v1, v2, vertices, edges, faces, count), count >= 1
duplicate_vertices(self, v1, v2, vertices, edges, faces, count) ==
    LET direction == VSub(v2, v1)
        edge_length == VLength(direction)
        one_item_length == RDiv(edge_length, R(count))
        actual_length == diameter(vertices, orient_axis(self))
    IN  IF actual_length.err # "none" THEN actual_length
        ELSE IF RIsZero(actual_length.val) THEN Err("ZeroDivisionError")
        ELSE
        LET x_scale == RDiv(one_item_length, actual_length.val)
            x == all_axes[orient_axis(self) + 1]
            u == normalized(direction)
        IN  dv_rot(self, vertices, count, direction, edge_length, x_scale,
                   origins_of(v1, direction, one_item_length, u, count),
                   IF scale_off(self) THEN None
                   ELSE IF self.scale_all THEN ScaleUniform(x_scale)
                   ELSE ScaleAxis(x_scale, x),
                   autorotate(x, direction))

(***************************************************************************)
(* sverchok.data_structure.match_long_repeat: every list is brought to the *)
(* length of the longest by repeating its last element; an empty list is   *)
(* an error.                                                               *)
(***************************************************************************)
MaxLen(lsts) ==
    CHOOSE m \in {Len(lsts[k]) : k \in 1..Len(lsts)} :
        \A k \in 1..Len(lsts) : Len(lsts[k]) <= m
PyMin(a, b) == IF a < b THEN a ELSE b
repeat_cycle(l, n) == List([p \in 1..n |-> l[((p - 1) % Len(l)) + 1]])
repeat_last(l, n) == List([p \in 1..n |-> l[PyMin(p, Len(l))]])
match_long_repeat(lsts) ==
    IF \E k \in 1..Len(lsts) : Len(lsts[k]) = 0 THEN Err("EmptyInputError")
    ELSE Ok(List([k \in 1..Len(lsts) |-> repeat_last(lsts[k], MaxLen(lsts))]))

(***************************************************************************)
(* State of one node and of one invocation of process().                   *)
(***************************************************************************)
VARIABLES
    self,             \* the node's properties
    in_linked,        \* names of the linked input sockets
    out_linked,       \* names of the linked output sockets
    data,             \* data held by the input sockets
    pc,               \* position of process(): idle, loop, done, returned, error
    meshes,           \* the six aligned lists of line 259
    i,                \* index of the next batch item of the loop of line 261
    result_matrices,
    result_vertices,
    result_edges,
    result_faces,
    loc,              \* locals of the last loop iteration
    placed,           \* history: the count of every item placed so far
    outputs           \* what sv_set has stored in the output sockets

vars == <<self, in_linked, out_linked, data, pc, meshes, i, result_matrices,
          result_vertices, result_edges, result_faces, loc, placed,
          outputs>>

InputNames == {"Vertices", "Edges", "Polygons", "Vertex1", "Vertex2",
               "VerticesR", "EdgesR", "Count"}
OutputNames == {"Vertices", "Edges", "Polygons", "Matrices"}

Unset == [set |-> FALSE]
NoLoc == [status |-> "unset", at |-> "none"]

\* socket.sv_get(default): the default when the socket is not linked
sv_get(name, default) == IF name \in in_linked THEN data[name] ELSE default

\* lines 225-234: a required input is not linked
MissingInput ==
    \/ self.input_mode = "edge" /\ ~({"VerticesR", "EdgesR"} \subseteq in_linked)
    \/ self.input_mode = "fixed" /\ ~({"Vertex1", "Vertex2"} \subseteq in_linked)
    \/ "Vertices" \notin in_linked

\* lines 236-249: the lists read from the sockets
vertices_s == sv_get("Vertices", <<<<>>>>)
edges_s == sv_get("Edges", <<<<>>>>)
faces_s == sv_get("Polygons", <<<<>>>>)
inp_vertices1_s == sv_get("Vertex1", <<<<>>>>)[1]
inp_vertices2_s == sv_get("Vertex2", <<<<>>>>)[1]
vertices_r == sv_get("VerticesR", <<<<>>>>)[1]
edges_r == sv_get("EdgesR", <<<<>>>>)[1]
counts == sv_get("Count", <<<<self.count_>>>>)[1]
recipient == get_recipient_vertices(self, inp_vertices1_s, inp_vertices2_s,
                                    vertices_r, edges_r)
\* line 252
OutputRequested_always == TRUE
OutputRequested == "Vertices" \in out_linked \/ "Matrices" \in out_linked
aligned ==
    match_long_repeat(<<vertices_s, edges_s, faces_s,
                        recipient.val[1], recipient.val[2], counts>>)

(***************************************************************************)
(* Input data the sockets are fed with.  Every pair of segment end points  *)
(* that can meet in one batch item is at a rational distance.              *)
(***************************************************************************)
DefaultCount == 3

DonorUnit == <<Vector(0, 0, 0), Vector(1, 1, 1)>>
DonorLong == <<Vector(0, 0, 0), Vector(2, 1, 1), Vector(1, 1, 0)>>
DonorPoint == <<Vector(1, 1, 1)>>
Donors == {DonorUnit, DonorLong, DonorPoint}

Segments ==
    { <<Vector(0, 0, 0), Vector(3, 0, 0)>>,
      <<Vector(0, 0, 0), <<<<7, 2>>, RZero, RZero>>>>,
      <<Vector(0, 0, 0), <<RHalf, RZero, RZero>>>>,
      <<Vector(1, 1, 1), Vector(1, 1, 1)>>,
      <<Vector(1, 0, 0), Vector(-1, 0, 0)>>,
      <<Vector(0, 0, 0), Vector(0, 2, 0)>>,
      <<Vector(0, 1, 0), Vector(0, -1, 0)>>,
      <<Vector(0, 0, 0), Vector(0, 0, 3)>>,
      <<Vector(0, 0, 1), Vector(0, 0, -1)>>,
      <<Vector(0, 0, 0), Vector(0, 3, 4)>>,
      <<Vector(1, 1, 0), Vector(-1, -1, -1)>> }

EdgesA == <<<<0, 1>>>>
EdgesB == <<<<0, 1>>, <<1, 2>>>>
FacesA == <<>>
FacesB == <<<<0, 1, 2>>>>

PoolDonors == <<DonorUnit, DonorLong>>
PoolDonorsR == <<DonorLong, DonorUnit, DonorPoint>>
PoolEdges == <<EdgesA, EdgesB>>
PoolFaces == <<FacesB, FacesA>>
PoolVertex1 == <<Vector(0, 0, 0), Vector(0, 3, 0), Vector(0, -3, 0)>>
PoolVertex2 == <<Vector(4, 0, 0), Vector(0, 0, 4), Vector(-4, 0, 0)>>
RecipientVertices == <<Vector(0, 0, 0), Vector(4, 0, 0), Vector(0, 3, 0)>>
PoolEdgesR == <<<<0, 1>>, <<2, 1>>, <<0, 2>>>>
PoolCounts == <<2, 0, 3>>

\* the first n elements of a pool, the pool repeated when n exceeds it
Prefix(pool, n) == List([k \in 1..n |-> pool[((k - 1) % Len(pool)) + 1]])

DefaultProps ==
    [count_mode |-> "count", orient_axis_ |-> "X", scale_all |-> FALSE,
     apply_matrices |-> TRUE, input_mode |-> "edge", count_ |-> DefaultCount]

NoData ==
    [Vertices |-> <<>>, Edges |-> <<>>, Polygons |-> <<>>, Vertex1 |-> <<>>,
     Vertex2 |-> <<>>, VerticesR |-> <<>>, EdgesR |-> <<>>, Count |-> <<>>]

Idle ==
    /\ pc = "idle"
    /\ meshes = <<>>
    /\ i = 0
    /\ result_matrices = <<>>
    /\ result_vertices = <<>>
    /\ result_edges = <<>>
    /\ result_faces = <<>>
    /\ loc = NoLoc
    /\ placed = <<>>
    /\ outputs = [n \in OutputNames |-> Unset]

\* one batch item, every property setting, donor, segment and requested count
InitItem ==
    \E cm \in count_modes, ax \in axes, sa \in BOOLEAN, am \in BOOLEAN,
       donor \in Donors, seg \in Segments :
      \E c \in (IF cm = "count" THEN -1..MaxCount ELSE {DefaultCount}) :
        /\ self = [count_mode |-> cm, orient_axis_ |-> ax, scale_all |-> sa,
                   apply_matrices |-> am, input_mode |-> "fixed",
                   count_ |-> DefaultCount]
        /\ in_linked = {"Vertices", "Edges", "Polygons", "Vertex1", "Vertex2"}
                           \cup (IF cm = "count" THEN {"Count"} ELSE {})
        /\ out_linked = OutputNames
        /\ data = [NoData EXCEPT !.Vertices = <<donor>>,
                                 !.Edges = <<EdgesA>>,
                                 !.Polygons = <<FacesB>>,
                                 !.Vertex1 = <<<<seg[1]>>>>,
                                 !.Vertex2 = <<<<seg[2]>>>>,
                                 !.Count = <<<<c>>>>]
        /\ Idle

\* batches in "fixed" input mode with requested counts: the lists have
\* independent lengths up to MaxItems, but for the two lists of segment ends,
\* which have the same length
InitBatchFixed ==
    \E n1 \in 1..MaxItems, n2 \in 1..MaxItems, n3 \in 1..MaxItems,
       n4 \in 1..MaxItems, n6 \in 1..MaxItems :
        /\ self = [DefaultProps EXCEPT !.input_mode = "fixed"]
        /\ in_linked = {"Vertices", "Edges", "Polygons", "Vertex1", "Vertex2",
                        "Count"}
        /\ out_linked = OutputNames
        /\ data = [NoData EXCEPT
                     !.Vertices = Prefix(PoolDonors, n1),
                     !.Edges = Prefix(PoolEdges, n2),
                     !.Polygons = Prefix(PoolFaces, n3),
                     !.Vertex1 = <<Prefix(PoolVertex1, n4)>>,
                     !.Vertex2 = <<Prefix(PoolVertex2, n4)>>,
                     !.Count = <<Prefix(PoolCounts, n6)>>]
        /\ Idle

\* batches in "edge" input mode with automatic counts; the last donor of
\* the pool has no extent
InitBatchEdge ==
    \E cm \in count_modes \ {"count"},
       n1 \in 1..MaxItems, n2 \in 1..MaxItems, n3 \in 1..MaxItems,
       n4 \in 1..MaxItems :
        /\ self = [DefaultProps EXCEPT !.count_mode = cm]
        /\ in_linked = {"Vertices", "Edges", "Polygons", "VerticesR", "EdgesR"}
        /\ out_linked = OutputNames
        /\ data = [NoData EXCEPT
                     !.Vertices = Prefix(PoolDonorsR, n1),
                     !.Edges = Prefix(PoolEdges, n2),
                     !.Polygons = Prefix(PoolFaces, n3),
                     !.VerticesR = <<RecipientVertices>>,
                     !.EdgesR = <<Prefix(PoolEdgesR, n4)>>]
        /\ Idle

\* the default node with one item and its sockets linked in various ways;
\* a recipient edge may point outside the recipient vertices
LinkedOutputs ==
    {{}, {"Edges", "Polygons"}, {"Vertices"}, {"Matrices"}, OutputNames}
InitLinks ==
    \E im \in input_modes, ins \in SUBSET InputNames, outs \in LinkedOutputs,
       er \in {<<0, 1>>, <<0, 3>>} :
        /\ {"Edges", "Polygons", "Count"} \subseteq ins
        /\ er = <<0, 3>> => im = "edge" /\ ins = InputNames
        /\ self = [DefaultProps EXCEPT !.input_mode = im]
        /\ in_linked = ins
        /\ out_linked = outs
        /\ data = [Vertices |-> <<DonorUnit>>, Edges |-> <<EdgesA>>,
                   Polygons |-> <<FacesA>>,
                   Vertex1 |-> <<<<Vector(0, 0, 0)>>>>,
                   Vertex2 |-> <<<<Vector(4, 0, 0)>>>>,
                   VerticesR |-> <<RecipientVertices>>,
                   EdgesR |-> <<<<er>>>>,
                   Count |-> <<<<2>>>>]
        /\ Idle

Init == InitItem \/ InitBatchFixed \/ InitBatchEdge \/ InitLinks

(***************************************************************************)
(* process()                                                               *)
(***************************************************************************)
PyMax_above(a, b) == IF a > b THEN a ELSE b + 1
PyMax(a, b) == IF a > b THEN a ELSE b

\* the tuple the loop of line 261 takes from zip(*meshes)
Item_first(k) ==
    [vertices |-> meshes[1][k], edges |-> meshes[2][1], faces |-> meshes[3][1],
     vertex1 |-> meshes[4][k], vertex2 |-> meshes[5][k],
     inp_count |-> meshes[6][k]]
Item(k) ==
    [vertices |-> meshes[1][k], edges |-> meshes[2][k], faces |-> meshes[3][k],
     vertex1 |-> meshes[4][k], vertex2 |-> meshes[5][k],
     inp_count |-> meshes[6][k]]

\* lines 262-264 for one tuple: the count is resolved, clamped and placed.
\* The result says where an exception was raised (at), or holds what the
\* iteration computed.
Placed(raw, count, dv) ==
    IF dv.err # "none"
    THEN [status |-> dv.err, at |-> "duplicate_vertices", raw |-> raw,
          count |-> count]
    ELSE [status |-> "ok", at |-> "done", raw |-> raw, count |-> count,
          dv |-> dv]
Clamped(it, raw, count) ==
    Placed(raw, count,
           duplicate_vertices(self, it.vertex1, it.vertex2, it.vertices,
                              it.edges, it.faces, count))
Resolved(it, raw) ==
    IF raw.err # "none" THEN [status |-> raw.err, at |-> "get_count"]
    ELSE Clamped(it, raw.val, PyMax(raw.val, 1))
Resolve(it) ==
    Resolved(it, get_count(self, it.vertex1, it.vertex2, it.vertices,
                           it.inp_count))

\* lines 225-234 and 252: process returns without touching the outputs
ProcessReturn ==
    /\ pc = "idle"
    /\ \/ MissingInput
       \/ ~MissingInput /\ recipient.err = "none" /\ ~OutputRequested
    /\ pc' = "returned"
    /\ UNCHANGED <<self, in_linked, out_linked, data, meshes, i, result_matrices,
                   result_vertices, result_edges, result_faces, loc, placed,
                   outputs>>

\* lines 249, 259: reading the recipient edges or aligning the lists raises
ProcessStartFail ==
    /\ pc = "idle"
    /\ ~MissingInput
    /\ \/ recipient.err # "none"
       \/ recipient.err = "none" /\ OutputRequested /\ aligned.err # "none"
    /\ pc' = "error"
    /\ loc' = [status |-> IF recipient.err # "none" THEN recipient.err
                          ELSE aligned.err,
               at |-> "start"]
    /\ UNCHANGED <<self, in_linked, out_linked, data, meshes, i, result_matrices,
                   result_vertices, result_edges, result_faces, placed, outputs>>

\* lines 236-259: the inputs are read and aligned, the results start empty
ProcessStart ==
    /\ pc = "idle"
    /\ ~MissingInput
    /\ recipient.err = "none"
    /\ OutputRequested
    /\ aligned.err = "none"
    /\ meshes' = aligned.val
    /\ i' = 1
    /\ result_matrices' = <<>>
    /\ result_vertices' = <<>>
    /\ result_edges' = <<>>
    /\ result_faces' = <<>>
    /\ placed' = <<>>
    /\ pc' = "loop"
    /\ UNCHANGED <<self, in_linked, out_linked, data, loc, outputs>>

\* lines 261-268: one iteration of the loop; an exception raised by
\* get_count or duplicate_vertices leaves process
ProcessItem ==
    /\ pc = "loop"
    /\ i <= Len(meshes[1])
    /\ \E it \in {Item(i)} : \E r \in {Resolve(it)} :
           IF r.status = "ok"
           THEN /\ result_edges' = extend(result_edges, replicate(it.edges, r.count))
                /\ result_faces' = extend(result_faces, replicate(it.faces, r.count))
                /\ result_vertices' = extend(result_vertices, r.dv.result_vertices)
                /\ result_matrices' = extend(result_matrices, r.dv.matrices)
                /\ placed' = Append(placed, r.count)
                /\ loc' = r
                /\ i' = i + 1
                /\ pc' = pc
           ELSE /\ loc' = r
                /\ pc' = "error"
                /\ UNCHANGED <<i, result_matrices, result_vertices,
                               result_edges, result_faces, placed>>
    /\ UNCHANGED <<self, in_linked, out_linked, data, meshes, outputs>>

\* lines 270-278: the outputs are set after the loop
ProcessFinish ==
    /\ pc = "loop"
    /\ i > Len(meshes[1])
    /\ outputs' =
         [n \in OutputNames |->
            CASE n = "Vertices" -> [set |-> TRUE, val |-> result_vertices]
              [] n = "Edges" ->
                   IF "Edges" \in out_linked
                   THEN [set |-> TRUE, val |-> result_edges] ELSE outputs[n]
              [] n = "Polygons" ->
                   IF "Polygons" \in out_linked
                   THEN [set |-> TRUE, val |-> result_faces] ELSE outputs[n]
              [] n = "Matrices" ->
                   IF "Matrices" \in out_linked
                   THEN [set |-> TRUE, val |-> Matrix_degenerate(result_matrices)]
                   ELSE outputs[n]]
    /\ pc' = "done"
    /\ UNCHANGED <<self, in_linked, out_linked, data, meshes, i, result_matrices,
                   result_vertices, result_edges, result_faces, loc, placed>>

Next ==
    \/ ProcessReturn
    \/ ProcessStartFail
    \/ ProcessStart
    \/ ProcessItem
    \/ ProcessFinish

Spec == Init /\ [][Next]_vars

(***************************************************************************)
(* Properties.  loc holds the locals of the loop iteration that ran last:  *)
(* loc.at says how far the iteration came, loc.raw is what get_count       *)
(* returned, loc.count what was passed to duplicate_vertices and loc.dv    *)
(* what duplicate_vertices computed.                                       *)
(***************************************************************************)
\* the tuple the last iteration worked on
Current == Item(IF loc.status = "ok" THEN i - 1 ELSE i)
\* the iteration resolved a count (get_count returned)
CountResolved == loc.at \in {"duplicate_vertices", "done"}

\* C1: whenever count resolution does not fail for an item, the count passed
\* to placement is an integer that is at least 1, and it is 1 exactly when
\* the resolver returned less than 1 (otherwise the resolver's value).
C1_CountAtLeastOne ==
    CountResolved =>
        /\ loc.count \in Int
        /\ loc.count >= 1
        /\ loc.count = (IF loc.raw < 1 THEN 1 ELSE loc.raw)
        /\ loc.status = "ok" => loc.dv.count = loc.count
C1_Witness ==
    /\ loc.status = "ok"
    /\ loc.raw < 1
    /\ loc.dv.count = 1
    /\ Len(loc.dv.matrices) = 1

\* C2: one placement with count c returns exactly c transforms and exactly c
\* vertex sets, and every vertex set has as many vertices as the donor,
\* whether or not the transforms are applied to the donor vertices.
C2_PlacementSizes ==
    loc.status = "ok" =>
        /\ Len(loc.dv.matrices) = loc.count
        /\ Len(loc.dv.result_vertices) = loc.count
        /\ \A k \in 1..Len(loc.dv.result_vertices) :
              Len(loc.dv.result_vertices[k]) = Len(Current.vertices)
C2_Witness ==
    /\ loc.status = "ok"
    /\ ~self.apply_matrices
    /\ loc.count = 3
    /\ Len(Current.vertices) = 3
    /\ Len(loc.dv.result_vertices) = 3

\* the sum of the first j counts
RECURSIVE SumTo(_, _)
SumTo(cs, j) == IF j = 0 THEN 0 ELSE SumTo(cs, j - 1) + cs[j]
\* the batch item whose instances hold output position n
Owner(n) ==
    CHOOSE j \in 1..Len(placed) : SumTo(placed, j - 1) < n /\ n <= SumTo(placed, j)

\* C3: once the loop has run over all aligned items, every output that was
\* set has as many entries as the sum of the resolved counts of the items,
\* and the edge set and the face set at position n are the donor edges and
\* faces of the item whose instances hold position n.
C3_OutputsAligned ==
    pc = "done" =>
        /\ Len(placed) = Len(meshes[1])
        /\ outputs["Vertices"].set
        /\ \A name \in OutputNames :
              outputs[name].set =>
                  Len(outputs[name].val) = SumTo(placed, Len(placed))
        /\ \A n \in 1..SumTo(placed, Len(placed)) :
              /\ outputs["Edges"].set =>
                     outputs["Edges"].val[n] = meshes[2][Owner(n)]
              /\ outputs["Polygons"].set =>
                     outputs["Polygons"].val[n] = meshes[3][Owner(n)]
C3_Witness ==
    /\ pc = "done"
    /\ \A name \in OutputNames : outputs[name].set
    /\ Len(placed) >= 2
    /\ placed[1] = 2
    /\ meshes[2][1] # meshes[2][2]
    /\ meshes[3][1] # meshes[3][2]
    /\ outputs["Edges"].val[3] = meshes[2][2]
    /\ Len(outputs["Matrices"].val) = SumTo(placed, Len(placed))

\* the translation part of a 4x4 matrix
TranslationOf(m) == <<m[1][4], m[2][4], m[3][4]>>
\* the midpoint of the k-th (1-based) of c equal parts of the segment v1-v2
Midpoint(v1, v2, k, c) ==
    VAdd(v1, VScale(VSub(v2, v1), Rat(2 * k - 1, 2 * c)))

\* C4: at every moment of the loop and after it, the collected transforms are
\* those of item 1, then those of item 2, and so on, without interleaving,
\* and within an item they come in increasing origin index: the transform at
\* position n, the k-th of its item, sits at the k-th origin of that item's
\* segment.  The collected vertex sets, edges and faces have the same layout.
C4_OutputOrder ==
    pc \in {"loop", "done", "error"} =>
        /\ Len(result_matrices) = SumTo(placed, Len(placed))
        /\ Len(result_vertices) = Len(result_matrices)
        /\ \A n \in 1..Len(result_matrices) :
              /\ TranslationOf(result_matrices[n]) =
                     Midpoint(meshes[4][Owner(n)], meshes[5][Owner(n)],
                              n - SumTo(placed, Owner(n) - 1),
                              placed[Owner(n)])
              /\ Len(result_vertices[n]) = Len(meshes[1][Owner(n)])
              /\ result_edges[n] = meshes[2][Owner(n)]
C4_Witness ==
    /\ pc = "done"
    /\ Len(placed) = 3
    /\ placed[1] = 2 /\ placed[3] = 3
    /\ meshes[4][1] # meshes[4][2]
    /\ meshes[5][1] # meshes[5][3]
    /\ TranslationOf(result_matrices[1]) # TranslationOf(result_matrices[2])
    /\ TranslationOf(result_matrices[3]) =
           Midpoint(meshes[4][2], meshes[5][2], 1, 1)

\* the extent of the vertices along the 0-based axis: the largest difference
\* of two coordinates
Spans(vs, axis) ==
    {RSub(vs[a][axis + 1], vs[b][axis + 1]) : a, b \in 1..Len(vs)}
Extent(vs, axis) ==
    CHOOSE d \in Spans(vs, axis) : \A e \in Spans(vs, axis) : RLeq(e, d)
CurrentExtent == Extent(Current.vertices, orient_axis(self))
CurrentLength == VLength(VSub(Current.vertex2, Current.vertex1))

\* C5: for a segment of positive length and a donor of positive extent, the
\* value get_count returns (before the clamp) is the requested count in mode
\* "count", the largest integer n with n * extent <= length in the modes
\* "up" and "off", and the smallest integer n with length <= n * extent in
\* mode "down".
C5_ResolverFormulas ==
    (/\ CountResolved
     /\ RLess(RZero, CurrentLength)
     /\ RLess(RZero, CurrentExtent)) =>
        CASE self.count_mode = "count" -> loc.raw = Current.inp_count
          [] self.count_mode \in {"up", "off"} ->
                /\ RLeq(RMul(R(loc.raw), CurrentExtent), CurrentLength)
                /\ RLess(CurrentLength, RMul(R(loc.raw + 1), CurrentExtent))
          [] self.count_mode = "down" ->
                /\ RLess(RMul(R(loc.raw - 1), CurrentExtent), CurrentLength)
                /\ RLeq(CurrentLength, RMul(R(loc.raw), CurrentExtent))
C5_Witness ==
    /\ loc.status = "ok"
    /\ self.count_mode = "down"
    /\ CurrentLength = Rat(7, 2)
    /\ CurrentExtent = ROne
    /\ loc.raw = 4

\* the last iteration got as far as resolving or placing an item
Iterated == loc.at \in {"get_count", "duplicate_vertices", "done"}

\* C6: a degenerate segment (v1 = v2) makes the iteration fail in every count
\* mode, and no item with a degenerate segment is ever placed.
C6_DegenerateSegmentRaises ==
    /\ (Iterated /\ Current.vertex1 = Current.vertex2) =>
           (loc.status # "ok" /\ pc = "error")
    /\ \A j \in 1..Len(placed) : meshes[4][j] # meshes[5][j]
\* what the code does instead: the item is placed, all instances at v1
C6_Witness ==
    /\ loc.status = "ok"
    /\ self.count_mode = "count"
    /\ Current.vertex1 = Current.vertex2
    /\ loc.count = 2
    /\ Len(loc.dv.matrices) = 2
    /\ loc.dv.x_scale = RZero
    /\ TranslationOf(loc.dv.matrices[1]) = Current.vertex1
    /\ TranslationOf(loc.dv.matrices[2]) = Current.vertex1

\* all vertices have the same coordinate along the 0-based axis
ZeroExtent(vs, axis) ==
    /\ Len(vs) > 0
    /\ \A a, b \in 1..Len(vs) : vs[a][axis + 1] = vs[b][axis + 1]

\* C7: an item whose donor has zero extent along the orientation axis makes
\* the iteration fail with a ZeroDivisionError in every count mode, the run
\* ends in the error, and no item with such a donor is ever placed.
C7_ZeroExtentRaises ==
    /\ (Iterated /\ ZeroExtent(Current.vertices, orient_axis(self))) =>
           (loc.status = "ZeroDivisionError" /\ pc = "error")
    /\ \A j \in 1..Len(placed) : ~ZeroExtent(meshes[1][j], orient_axis(self))
C7_Witness ==
    /\ pc = "error"
    /\ loc.at = "duplicate_vertices"
    /\ loc.status = "ZeroDivisionError"
    /\ self.count_mode = "count"
    /\ ZeroExtent(Current.vertices, orient_axis(self))
    /\ Current.vertex1 # Current.vertex2

\* C8: a placement with count c computes c origins, and the k-th of them
\* (k = 1..c, the code's index k - 1) is v1 + (v2 - v1) * (k - 1/2) / c; on the
\* segment (0,0,0)-(3,0,0) with count 3 they are (1/2,0,0), (3/2,0,0),
\* (5/2,0,0).
C8_Origins ==
    loc.status = "ok" =>
        /\ Len(loc.dv.origins) = loc.count
        /\ \A k \in 1..loc.count :
              loc.dv.origins[k] =
                  Midpoint(Current.vertex1, Current.vertex2, k, loc.count)
        /\ (/\ Current.vertex1 = Vector(0, 0, 0)
            /\ Current.vertex2 = Vector(3, 0, 0)
            /\ loc.count = 3) =>
               loc.dv.origins = <<<<Rat(1, 2), RZero, RZero>>,
                                  <<Rat(3, 2), RZero, RZero>>,
                                  <<Rat(5, 2), RZero, RZero>>>>
C8_Witness ==
    /\ loc.status = "ok"
    /\ Current.vertex1 = Vector(0, 0, 0)
    /\ Current.vertex2 = Vector(3, 0, 0)
    /\ loc.count = 3
    /\ loc.dv.origins[2] = <<Rat(3, 2), RZero, RZero>>

\* the transpose of the linear part of m times the linear part of m
Gram(m) ==
    <<<<VDot(<<m[1][1], m[2][1], m[3][1]>>, <<m[1][1], m[2][1], m[3][1]>>),
        VDot(<<m[1][1], m[2][1], m[3][1]>>, <<m[1][2], m[2][2], m[3][2]>>),
        VDot(<<m[1][1], m[2][1], m[3][1]>>, <<m[1][3], m[2][3], m[3][3]>>)>>,
      <<VDot(<<m[1][2], m[2][2], m[3][2]>>, <<m[1][1], m[2][1], m[3][1]>>),
        VDot(<<m[1][2], m[2][2], m[3][2]>>, <<m[1][2], m[2][2], m[3][2]>>),
        VDot(<<m[1][2], m[2][2], m[3][2]>>, <<m[1][3], m[2][3], m[3][3]>>)>>,
      <<VDot(<<m[1][3], m[2][3], m[3][3]>>, <<m[1][1], m[2][1], m[3][1]>>),
        VDot(<<m[1][3], m[2][3], m[3][3]>>, <<m[1][2], m[2][2], m[3][2]>>),
        VDot(<<m[1][3], m[2][3], m[3][3]>>, <<m[1][3], m[2][3], m[3][3]>>)>>>>
\* the factor an instance is to be scaled by along the 1-based axis a
FactorAlong(a, s) ==
    IF self.count_mode = "off" THEN ROne
    ELSE IF self.scale_all \/ a = orient_axis(self) + 1 THEN s
    ELSE ROne
\* the diagonal 3x3 matrix of the squares of these factors
SquaredFactors(s) ==
    <<<<RMul(FactorAlong(1, s), FactorAlong(1, s)), RZero, RZero>>,
      <<RZero, RMul(FactorAlong(2, s), FactorAlong(2, s)), RZero>>,
      <<RZero, RZero, RMul(FactorAlong(3, s), FactorAlong(3, s))>>>>
CurrentFactor == RDiv(RDiv(CurrentLength, R(loc.count)), CurrentExtent)

\* C9: with s = (length / count) / extent for the clamped count, the matrix of
\* every instance stretches the donor by s along all three axes when
\* scale_all is set, by s along the orientation axis only when it is not, and
\* not at all in mode "off" (no scale matrix is built there).  Mode "up" with
\* length 3 and extent 1 gives count 3 and s = 1; mode "down" with length 7/2
\* and extent 1 gives count 4 and s = 7/8.
C9_Scale ==
    loc.status = "ok" =>
        /\ \E s \in {CurrentFactor} : \E squares \in {SquaredFactors(s)} :
              /\ loc.dv.x_scale = s
              /\ self.count_mode # "off" =>
                    \A r, c \in 1..3 :
                        loc.dv.scale[r][c] =
                            (IF r = c THEN FactorAlong(r, s) ELSE RZero)
              /\ \A k \in 1..Len(loc.dv.matrices) :
                    Gram(loc.dv.matrices[k]) = squares
        /\ (self.count_mode = "off") = (loc.dv.scale = None)
        /\ (/\ self.count_mode = "up"
            /\ CurrentLength = R(3)
            /\ CurrentExtent = ROne) =>
               (loc.count = 3 /\ loc.dv.x_scale = ROne)
        /\ (/\ self.count_mode = "down"
            /\ CurrentLength = Rat(7, 2)
            /\ CurrentExtent = ROne) =>
               (loc.count = 4 /\ loc.dv.x_scale = Rat(7, 8))
C9_Witness ==
    /\ loc.status = "ok"
    /\ self.count_mode = "down"
    /\ ~self.scale_all
    /\ self.orient_axis_ = "Y"
    /\ loc.count = 4
    /\ loc.dv.x_scale = Rat(7, 8)
    /\ Gram(loc.dv.matrices[4]) =
           <<<<ROne, RZero, RZero>>, <<RZero, Rat(49, 64), RZero>>,
             <<RZero, RZero, ROne>>>>

\* the reference axis pushed through the rotation of the last placement
RotatedAxis == MLinear(loc.dv.rot, all_axes[orient_axis(self) + 1])

\* C10: for a non-zero direction, rot = autorotate(x, direction).inverted()
\* takes the reference axis x to the unit vector along direction: rot * x has
\* length 1 and its dot product with direction is the length of direction.
C10_RotationAligns ==
    (loc.status = "ok" /\ loc.dv.direction # VZero) =>
        /\ VLen2(RotatedAxis) = ROne
        /\ VDot(RotatedAxis, loc.dv.direction) = loc.dv.edge_length
C10_Witness ==
    /\ loc.status = "ok"
    /\ self.orient_axis_ = "X"
    /\ loc.dv.direction = Vector(-2, 0, 0)
    /\ RotatedAxis = Vector(-1, 0, 0)

CurrentDirection == VSub(Current.vertex2, Current.vertex1)
\* d is a positive multiple of the unit vector of the 0-based axis
PositiveAlong(d, axis) ==
    /\ RLess(RZero, d[axis + 1])
    /\ \A a \in 1..3 : a # axis + 1 => d[a] = RZero

\* C11: when the segment direction is a positive multiple of the reference
\* axis (and the donor has an extent), the iteration does not fail, and
\* autorotate returns the identity matrix, and so does its inverse rot.
C11_AlignedIdentity ==
    (/\ Iterated
     /\ PositiveAlong(CurrentDirection, orient_axis(self))
     /\ Len(Current.vertices) > 0
     /\ ~ZeroExtent(Current.vertices, orient_axis(self))) =>
        /\ loc.status = "ok"
        /\ autorotate(all_axes[orient_axis(self) + 1], CurrentDirection) = Identity
        /\ loc.dv.rot = Identity
C11_Witness ==
    /\ loc.status = "ok"
    /\ self.orient_axis_ = "Z"
    /\ PositiveAlong(loc.dv.direction, 2)
    /\ loc.dv.rot = Identity

\* the 3x3 identity
Identity3 ==
    <<<<ROne, RZero, RZero>>, <<RZero, ROne, RZero>>, <<RZero, RZero, ROne>>>>
\* the orientation part of the instance matrices of the last placement
Orientation == MMul(loc.dv.rot, flip)

\* C12: for a non-zero direction the orientation part rot * flip of the
\* instance matrices is a proper rotation: orthogonal, with determinant +1.
C12_ProperRotation ==
    (loc.status = "ok" /\ loc.dv.direction # VZero) =>
        /\ Gram(Orientation) = Identity3
        /\ Det(Orientation) = ROne
\* what the code does for an aligned direction: rot is the identity and the
\* orientation part is the reflection flip
C12_Witness ==
    /\ loc.status = "ok"
    /\ self.orient_axis_ = "X"
    /\ loc.dv.direction = Vector(3, 0, 0)
    /\ Gram(Orientation) = Identity3
    /\ Det(Orientation) = R(-1)
    /\ Orientation = flip

\* the reflection that negates the component of the 0-based axis
NegateAxis(axis) ==
    <<<<IF axis = 0 THEN R(-1) ELSE ROne, RZero, RZero, RZero>>,
      <<RZero, IF axis = 1 THEN R(-1) ELSE ROne, RZero, RZero>>,
      <<RZero, RZero, IF axis = 2 THEN R(-1) ELSE ROne, RZero>>,
      <<RZero, RZero, RZero, ROne>>>>
\* rot * scale * correction for the last placement, the part of the instance
\* matrices that all instances share
Shared(correction) ==
    MMul(MMul(loc.dv.rot, IF loc.dv.scale = None THEN Identity ELSE loc.dv.scale),
         correction)
\* Translation(origin k) * rot * scale * correction for the last placement
Composed(k, correction) ==
    MMul(Translation(loc.dv.origins[k]), Shared(correction))

\* C13 (as the code has it): the last factor of every instance matrix is the
\* reflection that negates the X component, whatever the orientation axis
\* is, the same for every instance of every item.
C13_FlipNegatesX ==
    loc.status = "ok" =>
        \E shared \in {Shared(NegateAxis(0))} :
            \A k \in 1..Len(loc.dv.matrices) :
                loc.dv.matrices[k] = MMul(Translation(loc.dv.origins[k]), shared)
C13_Witness ==
    /\ loc.status = "ok"
    /\ self.orient_axis_ = "Y"
    /\ loc.count >= 2
    /\ loc.dv.matrices[2] = Composed(2, NegateAxis(0))
    /\ loc.dv.matrices[2] # Composed(2, NegateAxis(1))
\* C13 (as stated): the last factor of every instance matrix is the
\* reflection that negates the component of the selected orientation axis.
C13_FlipNegatesAxis ==
    loc.status = "ok" =>
        \A k \in 1..Len(loc.dv.matrices) :
            loc.dv.matrices[k] = Composed(k, NegateAxis(orient_axis(self)))

\* w is a positive multiple of d (d non-zero): parallel and pointing the same way
PositiveMultiple(w, d) ==
    /\ RLess(RZero, VDot(w, d))
    /\ RMul(VDot(w, d), VDot(w, d)) = RMul(VLen2(w), VLen2(d))
\* the image of the orientation axis under instance matrix m, minus the
\* image of the zero point
AxisImage(m) ==
    VSub(MApply(m, all_axes[orient_axis(self) + 1]), MApply(m, VZero))

\* C14: for a non-degenerate segment every instance matrix takes the
\* orientation axis to a positive multiple of v2 - v1, for each of the axes
\* X, Y and Z.
C14_AxisOntoDirection ==
    (loc.status = "ok" /\ Current.vertex1 # Current.vertex2) =>
        \A k \in 1..Len(loc.dv.matrices) :
            PositiveMultiple(AxisImage(loc.dv.matrices[k]), CurrentDirection)
\* what the code does for axis X: the axis is taken to the opposite direction
C14_Witness ==
    /\ loc.status = "ok"
    /\ self.orient_axis_ = "X"
    /\ self.count_mode = "count"
    /\ Current.vertex1 = Vector(0, 0, 0)
    /\ Current.vertex2 = Vector(3, 0, 0)
    /\ loc.count = 3
    /\ AxisImage(loc.dv.matrices[1]) = Vector(-1, 0, 0)

\* the point v pushed through the 4x4 matrix m (w = 1)
Transformed(m, v) ==
    <<RAdd(VDot(<<m[1][1], m[1][2], m[1][3]>>, v), m[1][4]),
      RAdd(VDot(<<m[2][1], m[2][2], m[2][3]>>, v), m[2][4]),
      RAdd(VDot(<<m[3][1], m[3][2], m[3][3]>>, v), m[3][4])>>
\* the placement of the current item with apply_matrices switched over
OtherApply ==
    duplicate_vertices([self EXCEPT !.apply_matrices = ~self.apply_matrices],
                       Current.vertex1, Current.vertex2, Current.vertices,
                       Current.edges, Current.faces, loc.count)

\* C15: with apply_matrices set, vertex j of the vertex set of instance k is
\* the matrix of instance k applied to donor vertex j; without it, each of
\* the count vertex sets is the donor's vertex list itself; the matrices
\* returned are the same either way (compared in the state the placement
\* leaves, before the outputs are set).
C15_ApplyMatrices ==
    loc.status = "ok" =>
        /\ self.apply_matrices =>
              \A k \in 1..Len(loc.dv.matrices) :
                  \A j \in 1..Len(Current.vertices) :
                      loc.dv.result_vertices[k][j] =
                          Transformed(loc.dv.matrices[k], Current.vertices[j])
        /\ ~self.apply_matrices =>
              \A k \in 1..loc.count :
                  loc.dv.result_vertices[k] = Current.vertices
        /\ pc = "loop" =>
              \E other \in {OtherApply} :
                  other.err = "none" /\ other.matrices = loc.dv.matrices
C15_Witness ==
    /\ loc.status = "ok"
    /\ self.apply_matrices
    /\ loc.count = 2
    /\ Len(Current.vertices) = 3
    /\ loc.dv.result_vertices[2][3] =
           Transformed(loc.dv.matrices[2], Current.vertices[3])
    /\ loc.dv.result_vertices[2] # Current.vertices
    /\ OtherApply.result_vertices[2] = Current.vertices

\* the six lists process hands to match_long_repeat
Unaligned ==
    <<vertices_s, edges_s, faces_s, recipient.val[1], recipient.val[2], counts>>
\* the loop has been entered: meshes holds the aligned lists
Started == pc \in {"loop", "done"} \/ (pc = "error" /\ loc.at # "start")

\* C16: the six aligned lists all have the length of the longest input list,
\* and element p (1-based) of aligned list k is element min(p, length) of
\* input list k: a shorter list is continued with its last element.  A
\* finished run has processed as many items as the longest list has; lists
\* of lengths 1, 3, 1 give 3 items.
C16_AlignByRepeatingLast ==
    Started =>
        /\ Len(meshes) = 6
        /\ \E k \in 1..6 : Len(Unaligned[k]) = Len(meshes[1])
        /\ \A k \in 1..6 :
              /\ Len(Unaligned[k]) <= Len(meshes[1])
              /\ Len(meshes[k]) = Len(meshes[1])
              /\ \A p \in 1..Len(meshes[k]) :
                    meshes[k][p] =
                        Unaligned[k][IF p < Len(Unaligned[k]) THEN p
                                     ELSE Len(Unaligned[k])]
        /\ pc = "done" => Len(placed) = Len(meshes[1])
        /\ (/\ Len(Unaligned[1]) = 1
            /\ Len(Unaligned[2]) = 3
            /\ Len(Unaligned[3]) = 1
            /\ \A k \in 4..6 : Len(Unaligned[k]) = 1) =>
               Len(meshes[1]) = 3
C16_Witness ==
    /\ pc = "done"
    /\ Len(Unaligned[1]) = 1
    /\ Len(Unaligned[2]) = 3
    /\ Len(Unaligned[3]) = 1
    /\ Len(Unaligned[6]) = 2
    /\ Unaligned[6][1] # Unaligned[6][2]
    /\ meshes[6][3] = Unaligned[6][2]
    /\ meshes[1][3] = Unaligned[1][1]
    /\ Len(placed) = 3

\* the length of the segment covered by count unscaled copies of the donor
Covered == RMul(R(loc.count), CurrentExtent)

\* C17 (as the code has it): in the modes "up" and "off" the clamped count of
\* whole-size copies fits in the segment when the segment is at least as
\* long as the donor; for a shorter segment the resolver gives 0, the count
\* is clamped to 1 and the one copy is longer than the segment.  Mode "off"
\* with length 7/2 and extent 1 places 3 unscaled copies.
C17_FitsUnlessShort ==
    (loc.status = "ok" /\ self.count_mode \in {"up", "off"}) =>
        /\ RLeq(CurrentExtent, CurrentLength) => RLeq(Covered, CurrentLength)
        /\ RLess(CurrentLength, CurrentExtent) =>
              (loc.raw = 0 /\ loc.count = 1 /\ RLess(CurrentLength, Covered))
        /\ (/\ self.count_mode = "off"
            /\ CurrentLength = Rat(7, 2)
            /\ CurrentExtent = ROne) =>
               (loc.count = 3 /\ loc.dv.scale = None /\ Covered = R(3))
C17_Witness ==
    /\ loc.status = "ok"
    /\ self.count_mode = "off"
    /\ CurrentLength = Rat(1, 2)
    /\ CurrentExtent = ROne
    /\ loc.count = 1
    /\ Len(loc.dv.matrices) = 1
\* C17 (as stated): in the modes "up" and "off" count * extent <= length for
\* every segment and donor.
C17_NeverOverflows ==
    (loc.status = "ok" /\ self.count_mode \in {"up", "off"}) =>
        RLeq(Covered, CurrentLength)

RequiredLinked ==
    /\ "Vertices" \in in_linked
    /\ self.input_mode = "edge" => {"VerticesR", "EdgesR"} \subseteq in_linked
    /\ self.input_mode = "fixed" => {"Vertex1", "Vertex2"} \subseteq in_linked
\* one of the outputs that make process work is linked
WantedLinked == "Vertices" \in out_linked \/ "Matrices" \in out_linked
NothingWritten == \A name \in OutputNames : ~outputs[name].set

\* C19: no output is written before process has finished the whole batch,
\* so nothing is written when process returns early or an item fails.  With
\* a required input unlinked process only returns; with neither the Vertices
\* nor the Matrices output linked it never enters the loop.  A run only
\* finishes when the required inputs are linked and the Vertices or the
\* Matrices output is linked; it has then processed every item, and writes
\* the Vertices output and each other output that is linked, each holding
\* the instances of all items.
C19_AllOrNothing ==
    /\ pc # "done" => NothingWritten
    /\ ~RequiredLinked => pc \in {"idle", "returned"}
    /\ ~WantedLinked => (pc \notin {"loop", "done"} /\ placed = <<>>)
    /\ pc = "done" =>
          /\ RequiredLinked /\ WantedLinked
          /\ Len(placed) = Len(meshes[1])
          /\ outputs["Vertices"].set
          /\ outputs["Vertices"].val = result_vertices
          /\ \A name \in OutputNames \ {"Vertices"} :
                outputs[name].set = (name \in out_linked)
          /\ \A name \in OutputNames :
                outputs[name].set =>
                    Len(outputs[name].val) = SumTo(placed, Len(placed))
C19_Witness ==
    /\ pc = "error"
    /\ loc.at \in {"get_count", "duplicate_vertices"}
    /\ Len(placed) >= 1
    /\ Len(result_matrices) >= 1
    /\ WantedLinked
    /\ NothingWritten

====
